---- MODULE Spec2Model ----
(***************************************************************************)
(* RGBmatrixPanel: the packed, double-buffered framebuffer, the BCM        *)
(* refresh interrupt (updateDisplay) and the application calls that share  *)
(* state with it (begin, drawPixel, fillScreen, swapBuffers).              *)
(*                                                                         *)
(* The panel instance the application draws on is modelled in full: the    *)
(* heap block that init() allocates is the byte array `heap`; pointers are *)
(* offsets into it.  A second instance on the same pins, which is begun    *)
(* and refreshed but never drawn on, is the record `other`.  The refresh   *)
(* interrupt runs to completion (one action); application calls are split  *)
(* where the interrupt can preempt them.  The colour conversions are pure  *)
(* functions; a call of one leaves its arguments and result in `col`.      *)
(***************************************************************************)
EXTENDS Integers, Sequences, FiniteSets, TLC

\* ------------------------------------------------------------ dimensions

\* Bit planes per colour channel (#define nPlanes 4).
nPlanes == 4

\* Panel width in pixels (the constructor's width argument), scaled down.
WIDTH == 2

\* Multiplexed rows (init's rows argument: 8 or 16 in the library), scaled down.
nRows == 2

\* Application calls per behaviour of Spec.
MaxCalls == 3

\* Physical height: Adafruit_GFX(width, 16) with init(8), (width, 32) with init(16).
HEIGHT == 2 * nRows

\* int buffsize = width * nRows * 3
buffsize == WIDTH * nRows * 3

\* allocsize = (dbuf == true) ? (buffsize * 2) : buffsize
allocsize(d) == IF d THEN buffsize * 2 ELSE buffsize

\* The null heap pointer (also: a pointer not yet assigned).
NULL == -1

\* Values of the static activePanel pointer: no panel, this instance, or
\* the second instance.
NoPanel == "NULL"
this == "this"
that == "other"

\* Timer ticks in one frame: every plane of every row.
FrameTicks == nRows * nPlanes

\* ------------------------------------------------------- integer helpers

Pow2(k) == 2 ^ k

\* Bit k of v.
Bit(v, k) == (v \div Pow2(k)) % 2

\* v >> k, and (v << k) truncated to w bits.
Shr(v, k) == v \div Pow2(k)
Shl(v, k, w) == (v * Pow2(k)) % Pow2(w)

\* a & b and a | b on 16-bit operands (bytes included).
BitAnd(a, b) ==
  LET t(k) == Bit(a, k) * Bit(b, k) * Pow2(k)
  IN t(0) + t(1) + t(2) + t(3) + t(4) + t(5) + t(6) + t(7)
       + t(8) + t(9) + t(10) + t(11) + t(12) + t(13) + t(14) + t(15)
BitOr(a, b) == a + b - BitAnd(a, b)

\* (uint8_t)~m
Not8(m) == 255 - m

\* uint8_t increment: ++v
Inc8(v) == (v + 1) % 256

\* ------------------------------------------------------------- BCM table

Platforms == {"CoreFaster", "CoreBitBang", "Photon"}

\* A table whose intervals grow linearly instead of doubling.
durLinear(pf) ==
  IF pf = "CoreBitBang" THEN <<50, 100, 150, 200>>
  ELSE <<30, 60, 90, 120>>

\* static const uint16_t dur[4], one table per build configuration.
dur(pf) ==
  IF pf = "CoreBitBang" THEN <<50, 100, 200, 400>>
  ELSE <<30, 60, 120, 240>>

\* ------------------------------------------------------------------ state

VARIABLES
  platform,     \* build configuration (selects dur)
  dbuf,         \* constructor argument: double buffering requested
  rotation,     \* Adafruit_GFX rotation, 0..3
  heap,         \* the malloc'ed block, byte offset -> byte; <<>> if malloc failed
  matrixbuff,   \* matrixbuff[0..1]: offsets into heap (NULL if malloc failed)
  backindex,    \* volatile uint8_t backindex
  swapflag,     \* volatile boolean swapflag
  row, plane,   \* volatile uint8_t row, plane
  buffptr,      \* volatile uint8_t *buffptr (heap offset)
  activePanel,  \* static RGBmatrixPanel *activePanel
  timerArmed,   \* refreshTimer.begin() has been called
  period,       \* the interval the timer was last programmed with
  oe, latch, sclk, \* control pins
  addr,         \* row address lines A..D as a number
  lines,        \* colour-line values (bits 2..7) clocked out by the last tick
  scanned,      \* heap offsets read by the last tick since begin()
  events,       \* pin and timer events of the last tick, in program order
  pc,           \* position of the application context
  cur,          \* the application call in progress, or the last one made
  budget,       \* application calls left
  sinceReq,     \* ticks that found swapflag set since the last request
  bcm,          \* brightness accumulation (SpecBCM only)
  gamma,        \* the table of gamma.h: 0..255 -> 4-bit value
  col,          \* the last colour conversion called: arguments and result
  other,        \* a second panel instance: its scheduler state
  hist          \* history: ticks of this panel so far (modulo the frame
                \* length), whether swapBuffers was called / has returned,
                \* interrupts taken while swapBuffers waits, the buffer the
                \* frame being scanned started in, ticks of this panel since
                \* begin() (up to 2), and the slice the last tick latched

vars ==
  <<platform, dbuf, rotation, heap, matrixbuff, backindex, swapflag, row, plane,
    buffptr, activePanel, timerArmed, period, oe, latch, sclk, addr, lines,
    scanned, events, pc, cur, budget, sinceReq, bcm, gamma, col, other, hist>>

panelVars == <<heap, matrixbuff, backindex, swapflag, row, plane, buffptr>>
pinVars == <<oe, latch, sclk, addr, lines, period, scanned, events>>
configVars == <<platform, dbuf, rotation, gamma>>
timerVars == <<activePanel, timerArmed>>
auxVars == <<col, other>>

\* What a call sees on entry, kept to state the call's effect.
Snapshot == [heap |-> heap, backindex |-> backindex]

NoCall ==
  [op |-> "none", x |-> 0, y |-> 0, c |-> 0, copy |-> FALSE, ptr |-> NULL,
   i |-> 0, pre |-> Snapshot]

Call(op, x, y, c, copy) ==
  [op |-> op, x |-> x, y |-> y, c |-> c, copy |-> copy, ptr |-> NULL,
   i |-> 0, pre |-> Snapshot]

NoBcm == [v |-> 0, w |-> 0, p |-> 0, onV |-> 0, onW |-> 0, total |-> 0]

NoColor ==
  [op |-> "none", r |-> 0, g |-> 0, b |-> 0, hue |-> 0, sat |-> 0, val |-> 0,
   gflag |-> FALSE, ret |-> 0]

\* The slice a tick latches: the (row, plane) and front buffer of the state
\* the tick is entered with, and the offsets the tick before read.
NoSlice == [row |-> 0, plane |-> 0, base |-> NULL, reads |-> {}]

NoHist ==
  [ticks |-> 0, requested |-> FALSE, returned |-> FALSE, waited |-> 0,
   frame |-> NULL, since |-> 0, latched |-> NoSlice]

\* The scheduler state of this instance, as a record like `other`.
ThisPanel ==
  [matrixbuff |-> matrixbuff, plane |-> plane, row |-> row,
   swapflag |-> swapflag, backindex |-> backindex, buffptr |-> buffptr]

\* gamma.h: a fixed, monotonic 256-entry table of 4-bit values whose last
\* entry is the brightest value.  Three such tables: the top four bits, a
\* quadratic curve, and a step at the last entry.
GammaShift == [i \in 0..255 |-> i \div 16]
GammaTables ==
  {GammaShift,
   [i \in 0..255 |-> (i * i) \div 4335],
   [i \in 0..255 |-> IF i = 255 THEN 15 ELSE 0]}

\* ------------------------------------------------------------ constructor

\* init() when malloc succeeds: zeroed block, both buffer pointers set,
\* plane = nPlanes - 1, row = nRows - 1, swapflag = false, backindex = 0.
\* buffptr is not assigned before begin().
InitPanel(d) ==
  /\ dbuf = d
  /\ heap = [a \in 0..(allocsize(d) - 1) |-> 0]
  /\ matrixbuff = [k \in 0..1 |-> IF d /\ k = 1 THEN buffsize ELSE 0]
  /\ plane = nPlanes - 1
  /\ row = nRows - 1
  /\ swapflag = FALSE
  /\ backindex = 0
  /\ buffptr = NULL

\* The second instance after its constructor: double-buffered, its own
\* zeroed block (offsets 0 and buffsize within it).
OtherPanel ==
  [matrixbuff |-> [k \in 0..1 |-> IF k = 1 THEN buffsize ELSE 0],
   plane |-> nPlanes - 1, row |-> nRows - 1, swapflag |-> FALSE,
   backindex |-> 0, buffptr |-> NULL]

InitRest ==
  /\ activePanel = NoPanel
  /\ col = NoColor
  /\ other = OtherPanel
  /\ hist = NoHist
  /\ timerArmed = FALSE
  /\ period = 0
  /\ oe = 0 /\ latch = 0 /\ sclk = 0 /\ addr = 0
  /\ lines = <<>>
  /\ scanned = {}
  /\ events = <<>>
  /\ pc = "idle"
  /\ sinceReq = 0

\* Values an object member that init() never assigned can hold.
UninitBytes == {0, nPlanes - 1, 255}
UninitPointers == {NULL, NULL - 1}

\* init() when malloc returns NULL: matrixbuff[0] = NULL and the early
\* return leaves matrixbuff[1], plane, row, swapflag and backindex unassigned.
InitPanelFailed(d) ==
  /\ dbuf = d
  /\ heap = <<>>
  /\ matrixbuff \in {[k \in 0..1 |-> IF k = 0 THEN NULL ELSE q] : q \in UninitPointers}
  /\ plane \in UninitBytes
  /\ row \in UninitBytes
  /\ swapflag \in BOOLEAN
  /\ backindex \in UninitBytes
  /\ buffptr = NULL

Init ==
  /\ platform = "Photon"
  /\ rotation = 0
  /\ \E d \in BOOLEAN : InitPanel(d)
  /\ InitRest
  /\ cur = NoCall
  /\ budget = MaxCalls
  /\ bcm = NoBcm
  /\ gamma = GammaShift

\* ------------------------------------------------------------------ begin

\* begin(): backindex = 0, buffptr -> front buffer, this panel becomes the
\* active one, pins to their default states, timer started at 200 us.
begin ==
  /\ pc = "idle"
  /\ budget > 0
  /\ budget' = budget - 1
  /\ cur' = Call("begin", 0, 0, 0, FALSE)
  /\ backindex' = 0
  /\ buffptr' = matrixbuff[1 - 0]
  /\ activePanel' = this
  /\ sclk' = 0 /\ latch' = 0 /\ oe' = 1 /\ addr' = 0
  /\ lines' = <<>>
  /\ scanned' = {}
  /\ events' = <<>>
  /\ timerArmed' = TRUE
  /\ period' = 200
  /\ hist' = [hist EXCEPT !.since = 0]
  /\ UNCHANGED <<heap, matrixbuff, swapflag, row, plane, pc, sinceReq, bcm, auxVars,
                 configVars>>

\* ---------------------------------------------------------- updateDisplay

\* The advance with the buffers exchanged at every row wrap, requested or not.
AdvanceAlwaysSwap ==
  LET p1 == Inc8(plane) IN
  IF p1 >= nPlanes THEN
    LET r1 == Inc8(row) IN
    IF r1 >= nRows THEN
      [plane |-> 0, row |-> 0, backindex |-> 1 - backindex, swapflag |-> FALSE,
       buffptr |-> matrixbuff[backindex], setaddr |-> FALSE]
    ELSE
      [plane |-> 0, row |-> r1, backindex |-> backindex, swapflag |-> swapflag,
       buffptr |-> buffptr, setaddr |-> FALSE]
  ELSE
    [plane |-> p1, row |-> row, backindex |-> backindex, swapflag |-> swapflag,
     buffptr |-> buffptr, setaddr |-> (p1 = 1)]

\* The advance with the request honoured at every plane wrap, not only
\* at the row wrap.
AdvanceSwapAnyRow ==
  LET p1 == Inc8(plane) IN
  IF p1 >= nPlanes THEN
    LET r1 == Inc8(row)
        bi == IF swapflag THEN 1 - backindex ELSE backindex
    IN
    IF r1 >= nRows THEN
      [plane |-> 0, row |-> 0, backindex |-> bi, swapflag |-> FALSE,
       buffptr |-> matrixbuff[1 - bi], setaddr |-> FALSE]
    ELSE
      [plane |-> 0, row |-> r1, backindex |-> bi, swapflag |-> FALSE,
       buffptr |-> buffptr, setaddr |-> FALSE]
  ELSE
    [plane |-> p1, row |-> row, backindex |-> backindex, swapflag |-> swapflag,
     buffptr |-> buffptr, setaddr |-> (p1 = 1)]

\* The advance with the rows interleaved: the row advances at every tick,
\* the plane when the row wraps.
AdvanceInterleaved(p) ==
  LET r1 == Inc8(p.row) IN
  IF r1 >= nRows THEN
    LET p1 == Inc8(p.plane) IN
    IF p1 >= nPlanes THEN
      LET bi == IF p.swapflag THEN 1 - p.backindex ELSE p.backindex IN
      [plane |-> 0, row |-> 0, backindex |-> bi, swapflag |-> FALSE,
       buffptr |-> p.matrixbuff[1 - bi], setaddr |-> FALSE]
    ELSE
      [plane |-> p1, row |-> 0, backindex |-> p.backindex,
       swapflag |-> p.swapflag, buffptr |-> p.buffptr, setaddr |-> (p1 = 1)]
  ELSE
    [plane |-> p.plane, row |-> r1, backindex |-> p.backindex,
     swapflag |-> p.swapflag, buffptr |-> p.buffptr, setaddr |-> FALSE]

\* The advance with the row address written when the plane wraps to 0
\* instead of when it becomes 1.
AdvanceAddrAtWrap(p) ==
  LET p1 == Inc8(p.plane) IN
  IF p1 >= nPlanes THEN
    LET r1 == Inc8(p.row) IN
    IF r1 >= nRows THEN
      LET bi == IF p.swapflag THEN 1 - p.backindex ELSE p.backindex IN
      [plane |-> 0, row |-> 0, backindex |-> bi, swapflag |-> FALSE,
       buffptr |-> p.matrixbuff[1 - bi], setaddr |-> TRUE]
    ELSE
      [plane |-> 0, row |-> r1, backindex |-> p.backindex,
       swapflag |-> p.swapflag, buffptr |-> p.buffptr, setaddr |-> TRUE]
  ELSE
    [plane |-> p1, row |-> p.row, backindex |-> p.backindex,
     swapflag |-> p.swapflag, buffptr |-> p.buffptr, setaddr |-> FALSE]

\* The advance with a pending request dropped at a row change that is not
\* the wrap to row 0.
AdvanceDropRequest(p) ==
  LET p1 == Inc8(p.plane) IN
  IF p1 >= nPlanes THEN
    LET r1 == Inc8(p.row) IN
    IF r1 >= nRows THEN
      LET bi == IF p.swapflag THEN 1 - p.backindex ELSE p.backindex IN
      [plane |-> 0, row |-> 0, backindex |-> bi, swapflag |-> FALSE,
       buffptr |-> p.matrixbuff[1 - bi], setaddr |-> FALSE]
    ELSE
      [plane |-> 0, row |-> r1, backindex |-> p.backindex,
       swapflag |-> FALSE, buffptr |-> p.buffptr, setaddr |-> FALSE]
  ELSE
    [plane |-> p1, row |-> p.row, backindex |-> p.backindex,
     swapflag |-> p.swapflag, buffptr |-> p.buffptr, setaddr |-> (p1 = 1)]

\* (row, plane, backindex, swapflag, buffptr) of instance p after the
\* counter advance; setaddr: the row address lines are written.
AdvanceOf(p) ==
  LET p1 == Inc8(p.plane) IN
  IF p1 >= nPlanes THEN
    LET r1 == Inc8(p.row) IN
    IF r1 >= nRows THEN
      LET bi == IF p.swapflag THEN 1 - p.backindex ELSE p.backindex IN
      [plane |-> 0, row |-> 0, backindex |-> bi, swapflag |-> FALSE,
       buffptr |-> p.matrixbuff[1 - bi], setaddr |-> FALSE]
    ELSE
      [plane |-> 0, row |-> r1, backindex |-> p.backindex,
       swapflag |-> p.swapflag, buffptr |-> p.buffptr, setaddr |-> FALSE]
  ELSE
    [plane |-> p1, row |-> p.row, backindex |-> p.backindex,
     swapflag |-> p.swapflag, buffptr |-> p.buffptr, setaddr |-> (p1 = 1)]

\* The advance on this instance.
Advance == AdvanceOf(ThisPanel)

\* The row address lines of a panel of n multiplexed rows: A, B, C from
\* row bits 0..2, D only if n > 8 (left as it was otherwise).
RowAddressN(n, r, old) ==
  Bit(r, 0) + 2 * Bit(r, 1) + 4 * Bit(r, 2)
    + 8 * (IF n > 8 THEN Bit(r, 3) ELSE Bit(old, 3))

RowAddress(r, old) == RowAddressN(nRows, r, old)

\* Planes 1-3: bits 2..7 of ptr[i] go to R1 G1 B1 R2 G2 B2.
PlaneNBits(ptr, i) == BitAnd(heap[ptr + i], 252)

\* Plane 0: bits = (ptr[i] << 6) | ((ptr[i+WIDTH] << 4) & 0x30)
\*                               | ((ptr[i+WIDTH*2] << 2) & 0x0C)
Plane0Bits(ptr, i) ==
  BitOr(BitOr(Shl(heap[ptr + i], 6, 8),
              BitAnd(Shl(heap[ptr + i + WIDTH], 4, 8), 48)),
        BitAnd(Shl(heap[ptr + i + WIDTH * 2], 2, 8), 12))

\* What a read outside the allocated block, or of dur[] past its end, can
\* return (the byte and the interval are then whatever memory holds).
GarbageLines == {0, 252}
GarbagePeriods == {0, 65535}

\* The interval looked up after the plane counter has advanced.
DurationsNext(pf, p) ==
  IF p + 1 < nPlanes THEN {dur(pf)[p + 2]} ELSE {dur(pf)[1]}

\* duration = dur[plane]
Durations(pf, p) ==
  IF p < nPlanes THEN {dur(pf)[p + 1]} ELSE GarbagePeriods

\* The heap offsets one tick reads through ptr for plane p.
Reads(ptr, p) ==
  IF p > 0 THEN {ptr + i : i \in 0..(WIDTH - 1)}
  ELSE {ptr + i + k * WIDTH : i \in 0..(WIDTH - 1), k \in 0..2}

\* The colour-line values one tick clocks out through ptr for plane p.
Shifted(ptr, p) ==
  IF Reads(ptr, p) \subseteq DOMAIN heap
  THEN {[i \in 1..WIDTH |->
           IF p > 0 THEN PlaneNBits(ptr, i - 1) ELSE Plane0Bits(ptr, i - 1)]}
  ELSE [1..WIDTH -> GarbageLines]

\* The tick with the latch lowered only after the columns are shifted out.
TickEventsLatchLate(setaddr) ==
  <<"oe high", "latch high", "sclk low", "advance">>
    \o (IF setaddr THEN <<"address">> ELSE <<>>)
    \o <<"timer", "oe low">>
    \o [k \in 1..(3 * WIDTH) |->
         IF k % 3 = 1 THEN "data" ELSE IF k % 3 = 2 THEN "sclk high" ELSE "sclk low"]
    \o <<"latch low">>

\* The pin writes and the timer call of one updateDisplay(), in the order
\* of its statements; the address lines are written only when setaddr.
TickEvents(setaddr) ==
  <<"oe high", "latch high", "sclk low", "advance">>
    \o (IF setaddr THEN <<"address">> ELSE <<>>)
    \o <<"timer", "oe low", "latch low">>
    \o [k \in 1..(3 * WIDTH) |->
         IF k % 3 = 1 THEN "data" ELSE IF k % 3 = 2 THEN "sclk high" ELSE "sclk low"]

\* Interrupts counted while swapBuffers waits (counting stops one past a
\* frame).
Waited == IF pc = "swapwait" /\ hist.waited <= FrameTicks
          THEN hist.waited + 1 ELSE hist.waited

\* An interrupt that refreshes every instance, whichever is selected.
ActiveAny(p) == TRUE

\* refreshISR: the instance activePanel points to is the one refreshed.
Active(p) == activePanel = p

\* One timer interrupt: refreshISR -> activePanel->updateDisplay().
updateDisplay ==
  /\ timerArmed
  /\ Active(this)
  /\ LET n == Advance
         ptr == n.buffptr
     IN
     /\ period' \in Durations(platform, plane)
     /\ plane' = n.plane
     /\ row' = n.row
     /\ backindex' = n.backindex
     /\ swapflag' = n.swapflag
     /\ addr' = IF n.setaddr THEN RowAddress(n.row, addr) ELSE addr
     /\ oe' = 0 /\ latch' = 0 /\ sclk' = 0
     /\ lines' \in Shifted(ptr, n.plane)
     /\ scanned' = Reads(ptr, n.plane)
     /\ events' = TickEvents(n.setaddr)
     /\ buffptr' = IF n.plane > 0 THEN ptr + WIDTH ELSE ptr
     /\ sinceReq' = IF swapflag THEN sinceReq + 1 ELSE sinceReq
     /\ hist' = [hist EXCEPT
                   !.ticks = (@ + 1) % FrameTicks,
                   !.waited = Waited,
                   !.frame = IF n.row = 0 /\ n.plane = 0
                             THEN 1 - n.backindex ELSE @,
                   !.since = IF @ < 2 THEN @ + 1 ELSE @,
                   !.latched = [row |-> row, plane |-> plane,
                                base |-> matrixbuff[1 - backindex],
                                reads |-> scanned]]
  /\ UNCHANGED <<heap, matrixbuff, timerVars, pc, cur, budget, bcm, auxVars,
                 configVars>>

\* ------------------------------------------------------- second instance

\* begin() on the second instance (wired to the same pins): it becomes the
\* active panel and the one timer is restarted.
beginOther ==
  /\ pc = "idle"
  /\ budget > 0
  /\ budget' = budget - 1
  /\ cur' = Call("other.begin", 0, 0, 0, FALSE)
  /\ other' = [other EXCEPT !.backindex = 0,
                            !.buffptr = other.matrixbuff[1 - 0]]
  /\ activePanel' = that
  /\ sclk' = 0 /\ latch' = 0 /\ oe' = 1 /\ addr' = 0
  /\ lines' = <<>>
  /\ scanned' = {}
  /\ events' = <<>>
  /\ timerArmed' = TRUE
  /\ period' = 200
  /\ UNCHANGED <<panelVars, pc, sinceReq, bcm, col, hist, configVars>>

\* One timer interrupt while the second instance is the active one; its
\* buffers are never drawn on, so every byte it shifts out is zero.
updateDisplayOther ==
  /\ timerArmed
  /\ Active(that)
  /\ LET n == AdvanceOf(other) IN
     /\ period' \in Durations(platform, other.plane)
     /\ other' = [other EXCEPT
                    !.plane = n.plane, !.row = n.row,
                    !.backindex = n.backindex, !.swapflag = n.swapflag,
                    !.buffptr = IF n.plane > 0 THEN n.buffptr + WIDTH
                                ELSE n.buffptr]
     /\ addr' = IF n.setaddr THEN RowAddress(n.row, addr) ELSE addr
     /\ oe' = 0 /\ latch' = 0 /\ sclk' = 0
     /\ lines' = [i \in 1..WIDTH |-> 0]
     /\ scanned' = {}
     /\ events' = TickEvents(n.setaddr)
  /\ hist' = [hist EXCEPT !.waited = Waited]
  /\ UNCHANGED <<panelVars, timerVars, pc, cur, budget, sinceReq, bcm, col,
                 configVars>>

\* ------------------------------------------------------- colour codec

\* Conversion to uint8_t and to uint16_t.
U8(v) == v % 256
U16(v) == v % 65536

\* v << k on an int (no operand here reaches its width).
ShlInt(v, k) == v * Pow2(k)

\* a | b | c  and  a | b | c | d | e | f  on 16-bit operands, bit by bit.
Or3(a, b, c) ==
  LET t(k) == IF Bit(a, k) + Bit(b, k) + Bit(c, k) > 0 THEN Pow2(k) ELSE 0
  IN t(0) + t(1) + t(2) + t(3) + t(4) + t(5) + t(6) + t(7)
       + t(8) + t(9) + t(10) + t(11) + t(12) + t(13) + t(14) + t(15)
Or6(a, b, c, d, e, f) ==
  LET t(k) == IF Bit(a, k) + Bit(b, k) + Bit(c, k)
                   + Bit(d, k) + Bit(e, k) + Bit(f, k) > 0
              THEN Pow2(k) ELSE 0
  IN t(0) + t(1) + t(2) + t(3) + t(4) + t(5) + t(6) + t(7)
       + t(8) + t(9) + t(10) + t(11) + t(12) + t(13) + t(14) + t(15)

\* Color333: RRRrrGGGgggBBBbb
Color333(r, g, b) ==
  U16(Or6(ShlInt(BitAnd(r, 7), 13), ShlInt(BitAnd(r, 6), 10),
          ShlInt(BitAnd(g, 7), 8), ShlInt(BitAnd(g, 7), 5),
          ShlInt(BitAnd(b, 7), 2), Shr(BitAnd(b, 6), 1)))

\* Color444 with the low bits of each field left zero.
Color444ZeroFill(r, g, b) ==
  U16(Or3(ShlInt(BitAnd(r, 15), 12), ShlInt(BitAnd(g, 15), 7),
          ShlInt(BitAnd(b, 15), 1)))

\* Color444: RRRRrGGGGggBBBBb
Color444(r, g, b) ==
  U16(Or6(ShlInt(BitAnd(r, 15), 12), ShlInt(BitAnd(r, 8), 8),
          ShlInt(BitAnd(g, 15), 7), ShlInt(BitAnd(g, 12), 3),
          ShlInt(BitAnd(b, 15), 1), Shr(BitAnd(b, 8), 3)))

\* Color888 rounding each channel to the nearest step instead of truncating.
Color888Rounded(r, g, b) ==
  LET r5 == IF r + 4 > 255 THEN 31 ELSE (r + 4) \div 8
      g6 == IF g + 2 > 255 THEN 63 ELSE (g + 2) \div 4
      b5 == IF b + 4 > 255 THEN 31 ELSE (b + 4) \div 8
  IN r5 * 2048 + g6 * 32 + b5

\* Color888(r, g, b):
\* ((uint16_t)(r & 0xF8) << 8) | ((uint16_t)(g & 0xFC) << 3) | (b >> 3)
Color888(r, g, b) ==
  U16(Or3(ShlInt(BitAnd(r, 248), 8), ShlInt(BitAnd(g, 252), 3), Shr(b, 3)))

\* The 4/4/4 -> 5/6/5 promotion that ends Color888(.., gflag) and ColorHSV:
\* (r << 12) | ((r & 0x8) << 8) | (g << 7) | ((g & 0xC) << 3) | (b << 1) | (b >> 3)
Promote(r, g, b) ==
  U16(Or6(ShlInt(r, 12), ShlInt(BitAnd(r, 8), 8),
          ShlInt(g, 7), ShlInt(BitAnd(g, 12), 3),
          ShlInt(b, 1), Shr(b, 3)))

\* Color888(.., gflag) with the gamma path ending in a zero-filled promotion.
Color888gZeroFill(r, g, b, gflag) ==
  IF gflag
  THEN U16(Or3(ShlInt(U8(gamma[r]), 12), ShlInt(U8(gamma[g]), 7),
               ShlInt(U8(gamma[b]), 1)))
  ELSE U16(Or3(ShlInt(BitAnd(r, 248), 8), ShlInt(BitAnd(g, 252), 3),
               Shr(b, 3)))

\* Color888(r, g, b, gflag)
Color888g(r, g, b, gflag) ==
  IF gflag
  THEN Promote(U8(gamma[r]), U8(gamma[g]), U8(gamma[b]))
  ELSE U16(Or3(ShlInt(BitAnd(r, 248), 8), ShlInt(BitAnd(g, 252), 3),
               Shr(b, 3)))

\* The remainder of C's % (truncating: the sign of the dividend).
CRem(a, n) == IF a >= 0 THEN a % n ELSE 0 - ((0 - a) % n)

\* The hue after hue %= 1536 alone.
NormHueTruncated(hue) == CRem(hue, 1536)

\* hue %= 1536; if(hue < 0) hue += 1536;
NormHue(hue) ==
  LET h == CRem(hue, 1536) IN IF h < 0 THEN h + 1536 ELSE h

\* switch(hue >> 8): the fully saturated <<r, g, b>> of the sextant.
Sextant(hi, lo) ==
  CASE hi = 0 -> <<255, lo, 0>>
    [] hi = 1 -> <<255 - lo, 255, 0>>
    [] hi = 2 -> <<0, 255, lo>>
    [] hi = 3 -> <<0, 255 - lo, 255>>
    [] hi = 4 -> <<lo, 0, 255>>
    [] OTHER  -> <<255, 0, 255 - lo>>

\* The saturation step scaling the channel itself, not its distance to 255.
SaturateDirect(ch, s1) == U8(Shr(ch * s1, 8))

\* r = 255 - (((255 - r) * s1) >> 8)
Saturate(ch, s1) == U8(255 - Shr((255 - ch) * s1, 8))

\* r = gamma[(r * v1) >> 8]  or  r = (r * v1) >> 12
Brighten(ch, v1, gflag) ==
  IF gflag THEN U8(gamma[Shr(ch * v1, 8)]) ELSE U8(Shr(ch * v1, 12))

\* ColorHSV(hue, sat, val, gflag); on a long, hue & 255 is hue modulo 256
\* and hue >> 8 the floor of hue / 256.
ColorHSV(hue, sat, val, gflag) ==
  LET h == NormHue(hue)
      c == Sextant(h \div 256, U8(h % 256))
      s1 == U16(sat + 1)
      v1 == U16(val + 1)
      r == Brighten(Saturate(c[1], s1), v1, gflag)
      g == Brighten(Saturate(c[2], s1), v1, gflag)
      b == Brighten(Saturate(c[3], s1), v1, gflag)
  IN Promote(r, g, b)

\* What a call of one of the conversions leaves alone: everything but its
\* own result.
codecFrame ==
  <<panelVars, pinVars, timerVars, configVars, pc, cur, sinceReq, bcm, other,
    hist>>

Color333Call(r, g, b) ==
  /\ pc = "idle"
  /\ budget > 0
  /\ budget' = budget - 1
  /\ col' = [NoColor EXCEPT !.op = "Color333", !.r = r, !.g = g, !.b = b,
                            !.ret = Color333(r, g, b)]
  /\ UNCHANGED codecFrame

Color444Call(r, g, b) ==
  /\ pc = "idle"
  /\ budget > 0
  /\ budget' = budget - 1
  /\ col' = [NoColor EXCEPT !.op = "Color444", !.r = r, !.g = g, !.b = b,
                            !.ret = Color444(r, g, b)]
  /\ UNCHANGED codecFrame

Color888Call(r, g, b) ==
  /\ pc = "idle"
  /\ budget > 0
  /\ budget' = budget - 1
  /\ col' = [NoColor EXCEPT !.op = "Color888", !.r = r, !.g = g, !.b = b,
                            !.ret = Color888(r, g, b)]
  /\ UNCHANGED codecFrame

Color888gCall(r, g, b, gflag) ==
  /\ pc = "idle"
  /\ budget > 0
  /\ budget' = budget - 1
  /\ col' = [NoColor EXCEPT !.op = "Color888g", !.r = r, !.g = g, !.b = b,
                            !.gflag = gflag,
                            !.ret = Color888g(r, g, b, gflag)]
  /\ UNCHANGED codecFrame

ColorHSVCall(hue, sat, val, gflag) ==
  /\ pc = "idle"
  /\ budget > 0
  /\ budget' = budget - 1
  /\ col' = [NoColor EXCEPT !.op = "ColorHSV", !.hue = hue, !.sat = sat,
                            !.val = val, !.gflag = gflag,
                            !.ret = ColorHSV(hue, sat, val, gflag)]
  /\ UNCHANGED codecFrame

\* ------------------------------------------------------------- drawPixel

\* Adafruit_GFX's _width and _height: the visible size under the rotation.
\* (The panel is constructed as Adafruit_GFX(width, 2 * rows).)
Width_(rot) == IF rot \in {0, 2} THEN WIDTH ELSE HEIGHT
Height_(rot) == IF rot \in {0, 2} THEN HEIGHT ELSE WIDTH

\* The bounds check against the unrotated size.
OutOfRangeUnrotated(x, y, rot) ==
  (x < 0) \/ (x >= WIDTH) \/ (y < 0) \/ (y >= HEIGHT)

\* if((x < 0) || (x >= _width) || (y < 0) || (y >= _height)) return;
OutOfRange(x, y, rot) ==
  (x < 0) \/ (x >= Width_(rot)) \/ (y < 0) \/ (y >= Height_(rot))

\* The rotation with x and y swapped but neither axis mirrored.
RotateTransposed(x, y, rot) ==
  CASE rot = 1 -> <<y, x>>
    [] rot = 2 -> <<WIDTH - 1 - x, HEIGHT - 1 - y>>
    [] rot = 3 -> <<y, x>>
    [] OTHER   -> <<x, y>>

\* switch(rotation): the physical <<x, y>> of a visible pixel.
Rotate(x, y, rot) ==
  CASE rot = 1 -> <<WIDTH - 1 - y, x>>
    [] rot = 2 -> <<WIDTH - 1 - x, HEIGHT - 1 - y>>
    [] rot = 3 -> <<y, HEIGHT - 1 - x>>
    [] OTHER   -> <<x, y>>

\* r = c >> 12;  g = (c >> 7) & 0xF;  b = (c >> 1) & 0xF;
R4(c) == Shr(c, 12) % 256
G4(c) == BitAnd(Shr(c, 7), 15)
B4(c) == BitAnd(Shr(c, 1), 15)

\* ptr[off] &= mask  and  ptr[off] |= mask
AndByte(h, a, mask) == [h EXCEPT ![a] = BitAnd(@, mask)]
OrByte(h, a, mask) == [h EXCEPT ![a] = BitOr(@, mask)]
OrIf(cond, h, a, mask) == IF cond THEN OrByte(h, a, mask) ELSE h

\* for(; bit < limit; bit <<= 1) { *ptr &= ~clr; if(r & bit) *ptr |= mr; ...
\*                                 ptr += WIDTH; }
RECURSIVE PlaneLoop(_, _, _, _, _, _, _, _, _, _)
PlaneLoop(h, ptr, r, g, b, bit, clr, mr, mg, mb) ==
  IF bit >= Shl(1, nPlanes, 8) THEN h
  ELSE
    LET h0 == AndByte(h, ptr, Not8(clr))
        h1 == OrIf(BitAnd(r, bit) # 0, h0, ptr, mr)
        h2 == OrIf(BitAnd(g, bit) # 0, h1, ptr, mg)
        h3 == OrIf(BitAnd(b, bit) # 0, h2, ptr, mb)
    IN PlaneLoop(h3, ptr + WIDTH, r, g, b, Shl(bit, 1, 8), clr, mr, mg, mb)

\* StoreUpper without the mask-out of an unset plane 0 B bit.
StoreUpperStale(h, ptr, r, g, b) ==
  LET h0 == AndByte(h, ptr + WIDTH * 2, Not8(3))
      h1 == OrIf(BitAnd(r, 1) # 0, h0, ptr + WIDTH * 2, 1)
      h2 == OrIf(BitAnd(g, 1) # 0, h1, ptr + WIDTH * 2, 2)
      h3 == OrIf(BitAnd(b, 1) # 0, h2, ptr + WIDTH, 1)
  IN PlaneLoop(h3, ptr, r, g, b, 2, 28, 4, 8, 16)

\* Upper half (y < nRows): plane 0 R,G in bits 0,1 of ptr[WIDTH*2], plane 0 B
\* in bit 0 of ptr[WIDTH]; planes 1-3 in bits 2,3,4.
StoreUpper(h, ptr, r, g, b) ==
  LET h0 == AndByte(h, ptr + WIDTH * 2, Not8(3))
      h1 == OrIf(BitAnd(r, 1) # 0, h0, ptr + WIDTH * 2, 1)
      h2 == OrIf(BitAnd(g, 1) # 0, h1, ptr + WIDTH * 2, 2)
      h3 == IF BitAnd(b, 1) # 0 THEN OrByte(h2, ptr + WIDTH, 1)
            ELSE AndByte(h2, ptr + WIDTH, Not8(1))
  IN PlaneLoop(h3, ptr, r, g, b, 2, 28, 4, 8, 16)

\* StoreLower with planes 1-3 masked out in bits 2..7, the upper-half
\* pixel's bits with them.
StoreLowerWide(h, ptr, r, g, b) ==
  LET h0 == AndByte(h, ptr, Not8(3))
      h1 == IF BitAnd(r, 1) # 0 THEN OrByte(h0, ptr + WIDTH, 2)
            ELSE AndByte(h0, ptr + WIDTH, Not8(2))
      h2 == OrIf(BitAnd(g, 1) # 0, h1, ptr, 1)
      h3 == OrIf(BitAnd(b, 1) # 0, h2, ptr, 2)
  IN PlaneLoop(h3, ptr, r, g, b, 2, 252, 32, 64, 128)

\* Lower half: plane 0 G,B in bits 0,1 of *ptr, plane 0 R in bit 1 of
\* ptr[WIDTH]; planes 1-3 in bits 5,6,7.
StoreLower(h, ptr, r, g, b) ==
  LET h0 == AndByte(h, ptr, Not8(3))
      h1 == IF BitAnd(r, 1) # 0 THEN OrByte(h0, ptr + WIDTH, 2)
            ELSE AndByte(h0, ptr + WIDTH, Not8(2))
      h2 == OrIf(BitAnd(g, 1) # 0, h1, ptr, 1)
      h3 == OrIf(BitAnd(b, 1) # 0, h2, ptr, 2)
  IN PlaneLoop(h3, ptr, r, g, b, 2, 224, 32, 64, 128)

\* ptr = &matrixbuff[backindex][y * WIDTH * (nPlanes - 1) + x], with y
\* re-based at y - nRows in the lower half; px, py are physical.
PixelPtr(base, px, py) ==
  IF py < nRows THEN base + py * WIDTH * (nPlanes - 1) + px
  ELSE base + (py - nRows) * WIDTH * (nPlanes - 1) + px

\* The stores of drawPixel through ptr, for physical row py and colour c.
StorePixel(h, ptr, py, c) ==
  IF py < nRows THEN StoreUpper(h, ptr, R4(c), G4(c), B4(c))
  ELSE StoreLower(h, ptr, R4(c), G4(c), B4(c))

\* A whole drawPixel(x, y, c) on buffer `base`, as one function of the heap.
DrawPixelOn(h, base, x, y, c, rot) ==
  IF OutOfRange(x, y, rot) THEN h
  ELSE LET p == Rotate(x, y, rot)
       IN StorePixel(h, PixelPtr(base, p[1], p[2]), p[2], c)

\* drawPixel up to the computation of ptr; returns at once if out of range.
drawPixelCall(x, y, c) ==
  /\ pc = "idle"
  /\ budget > 0
  /\ budget' = budget - 1
  /\ IF OutOfRange(x, y, rotation)
     THEN /\ cur' = Call("drawPixel", x, y, c, FALSE)
          /\ pc' = "idle"
     ELSE LET p == Rotate(x, y, rotation)
          IN /\ cur' = [Call("drawPixel", x, y, c, FALSE) EXCEPT
                          !.ptr = PixelPtr(matrixbuff[backindex], p[1], p[2])]
             /\ pc' = "draw"
  /\ UNCHANGED <<panelVars, pinVars, timerVars, sinceReq, bcm, auxVars, hist, configVars>>

\* drawPixel's stores through ptr.
drawPixelStore ==
  /\ pc = "draw"
  /\ heap' = StorePixel(heap, cur.ptr, Rotate(cur.x, cur.y, rotation)[2], cur.c)
  /\ pc' = "idle"
  /\ UNCHANGED <<matrixbuff, backindex, swapflag, row, plane, buffptr, pinVars,
                 timerVars, cur, budget, sinceReq, bcm, auxVars, hist, configVars>>

\* ------------------------------------------------------------ fillScreen

\* A memset one byte short.
MemsetShort(h, ptr, v, n) ==
  [a \in DOMAIN h |-> IF a >= ptr /\ a < ptr + n - 1 THEN v % 256 ELSE h[a]]

\* A memset running on into the block's second buffer.
MemsetLong(h, ptr, v, n) ==
  [a \in DOMAIN h |-> IF a >= ptr /\ a < ptr + 2 * n THEN v % 256 ELSE h[a]]

\* memset(ptr, v, n)
Memset(h, ptr, v, n) ==
  [a \in DOMAIN h |-> IF a >= ptr /\ a < ptr + n THEN v % 256 ELSE h[a]]

\* fillScreen(c): black and white take the memset path, any other colour
\* Adafruit_GFX::fillScreen, which draws every visible pixel.
fillScreenCall(c) ==
  /\ pc = "idle"
  /\ budget > 0
  /\ budget' = budget - 1
  /\ IF (c = 0) \/ (c = 65535)
     THEN /\ cur' = [Call("fillScreen", 0, 0, c, FALSE) EXCEPT
                       !.ptr = matrixbuff[backindex]]
          /\ pc' = "memset"
     ELSE /\ cur' = Call("fillScreen", 0, 0, c, FALSE)
          /\ pc' = "fill"
  /\ UNCHANGED <<panelVars, pinVars, timerVars, sinceReq, bcm, auxVars, hist, configVars>>

\* memset(matrixbuff[backindex], c, WIDTH * nRows * 3)
fillScreenMemset ==
  /\ pc = "memset"
  /\ heap' = Memset(heap, cur.ptr, cur.c, WIDTH * nRows * 3)
  /\ pc' = "idle"
  /\ UNCHANGED <<matrixbuff, backindex, swapflag, row, plane, buffptr, pinVars,
                 timerVars, cur, budget, sinceReq, bcm, auxVars, hist, configVars>>

\* Adafruit_GFX::fillScreen -> fillRect(0, 0, _width, _height, c): one
\* drawPixel per step, columns outermost.
fillScreenPixel ==
  /\ pc = "fill"
  /\ LET x == cur.i \div Height_(rotation)
         y == cur.i % Height_(rotation)
     IN heap' = DrawPixelOn(heap, matrixbuff[backindex], x, y, cur.c, rotation)
  /\ cur' = [cur EXCEPT !.i = @ + 1]
  /\ pc' = IF cur.i + 1 >= Width_(rotation) * Height_(rotation)
           THEN "idle" ELSE "fill"
  /\ UNCHANGED <<matrixbuff, backindex, swapflag, row, plane, buffptr, pinVars,
                 timerVars, budget, sinceReq, bcm, auxVars, hist, configVars>>

\* ----------------------------------------------------------- swapBuffers

\* A reversed copy: the front buffer overwritten from the back buffer.
MemcpyReversed(h, dst, src, n) ==
  [a \in DOMAIN h |-> IF a >= src /\ a < src + n THEN h[dst + (a - src)] ELSE h[a]]

\* memcpy(dst, src, n) within the block.
Memcpy(h, dst, src, n) ==
  [a \in DOMAIN h |-> IF a >= dst /\ a < dst + n THEN h[src + (a - dst)] ELSE h[a]]

\* The test taken to be true of every panel.
AlwaysDouble == TRUE

\* if(matrixbuff[0] != matrixbuff[1])
DoubleBuffered == matrixbuff[0] # matrixbuff[1]

\* swapBuffers(copy) up to the wait loop; a panel whose two buffer pointers
\* are equal returns at once.
swapBuffersCall(copy) ==
  /\ pc = "idle"
  /\ budget > 0
  /\ budget' = budget - 1
  /\ cur' = Call("swapBuffers", 0, 0, 0, copy)
  /\ IF DoubleBuffered
     THEN /\ swapflag' = TRUE
          /\ pc' = "swapwait"
          /\ sinceReq' = 0
          /\ hist' = [hist EXCEPT !.requested = TRUE, !.waited = 0]
     ELSE /\ pc' = "idle"
          /\ hist' = [hist EXCEPT !.requested = TRUE, !.returned = TRUE]
          /\ UNCHANGED <<swapflag, sinceReq>>
  /\ UNCHANGED <<heap, matrixbuff, backindex, row, plane, buffptr, pinVars,
                 timerVars, bcm, auxVars, configVars>>

\* while(swapflag == true) delay(1); falls through once the interrupt has
\* cleared the flag; then the optional memcpy into the new back buffer.
swapBuffersReturn ==
  /\ pc = "swapwait"
  /\ swapflag = FALSE
  /\ heap' = IF cur.copy
             THEN Memcpy(heap, matrixbuff[backindex], matrixbuff[1 - backindex],
                         WIDTH * nRows * 3)
             ELSE heap
  /\ pc' = "idle"
  /\ sinceReq' = 0
  /\ hist' = [hist EXCEPT !.returned = TRUE, !.waited = 0]
  /\ UNCHANGED <<matrixbuff, backindex, swapflag, row, plane, buffptr, pinVars,
                 timerVars, cur, budget, bcm, auxVars, configVars>>

\* ------------------------------------------------------- specification

\* The colours and coordinates the application uses in Spec.
SpecColors == {65535, 42405}
SpecPixels == {<<0, 0>>, <<WIDTH - 1, HEIGHT - 1>>, <<WIDTH, 0>>}

Next ==
  \/ begin
  \/ updateDisplay
  \/ \E p \in SpecPixels, c \in SpecColors : drawPixelCall(p[1], p[2], c)
  \/ drawPixelStore
  \/ \E c \in SpecColors : fillScreenCall(c)
  \/ fillScreenMemset
  \/ fillScreenPixel
  \/ \E copy \in BOOLEAN : swapBuffersCall(copy)
  \/ swapBuffersReturn

Spec == Init /\ [][Next]_vars

\* ------------------------------------------- drawing on arbitrary contents

\* Colours for the drawing checks: every 4-bit value in each channel, with
\* the bits drawPixel ignores (0x0861) clear and set, and the named colours.
ChannelMix(v) == v * 4096 + ((5 * v + 3) % 16) * 128 + ((11 * v + 7) % 16) * 2
PixelColors ==
  {ChannelMix(v) + lo : v \in 0..15, lo \in {0, 2145}}
    \cup {0, 65535, 63488, 2016, 31, 2145}

\* Coordinates for the drawing checks: the visible area of every rotation
\* and one step outside it on each side.
PixelCoords == (-1)..(IF WIDTH > HEIGHT THEN WIDTH ELSE HEIGHT)

\* Buffer contents left by earlier drawing or by direct backBuffer() access.
PriorHeaps(d) ==
  {[a \in 0..(allocsize(d) - 1) |-> v] : v \in {0, 255}}
    \cup {[a \in 0..(allocsize(d) - 1) |-> (a * 37 + 90) % 256]}

\* A constructed panel with arbitrary buffer contents, either buffer the
\* back one, any rotation; one drawing call is made on it.
InitPixel ==
  /\ platform = "Photon"
  /\ rotation \in 0..3
  /\ \E d \in BOOLEAN :
       /\ dbuf = d
       /\ heap \in PriorHeaps(d)
       /\ matrixbuff = [k \in 0..1 |-> IF d /\ k = 1 THEN buffsize ELSE 0]
       /\ backindex \in (IF d THEN {0, 1} ELSE {0})
  /\ plane = nPlanes - 1
  /\ row = nRows - 1
  /\ swapflag = FALSE
  /\ buffptr = NULL
  /\ InitRest
  /\ cur = NoCall
  /\ budget = 1
  /\ bcm = NoBcm
  /\ gamma = GammaShift

NextPixel ==
  \/ \E x \in PixelCoords, y \in PixelCoords, c \in PixelColors :
       drawPixelCall(x, y, c)
  \/ drawPixelStore
  \/ \E c \in {0, 65535, 42405} : fillScreenCall(c)
  \/ fillScreenMemset
  \/ fillScreenPixel

SpecPixel == InitPixel /\ [][NextPixel]_vars

\* ================================================================ claims

\* The application has returned from a call of `op`.
Returned(op) == pc = "idle" /\ cur.op = op

\* Heap offset a lies in buffer k.
InBuffer(a, k) == a >= matrixbuff[k] /\ a < matrixbuff[k] + buffsize

\* (x, y) lies in the visible area: WIDTH x HEIGHT for rotations 0 and 2,
\* HEIGHT x WIDTH for rotations 1 and 3.
Visible(x, y, rot) ==
  LET w == IF rot % 2 = 0 THEN WIDTH ELSE HEIGHT
      h == IF rot % 2 = 0 THEN HEIGHT ELSE WIDTH
  IN x >= 0 /\ x < w /\ y >= 0 /\ y < h

\* The physical pixel a visible (x, y) names under each rotation.
PhysicalOf(x, y, rot) ==
  IF rot = 0 THEN <<x, y>>
  ELSE IF rot = 1 THEN <<WIDTH - 1 - y, x>>
  ELSE IF rot = 2 THEN <<WIDTH - 1 - x, HEIGHT - 1 - y>>
  ELSE <<y, HEIGHT - 1 - x>>

\* The 4-bit <<r, g, b>> read back from the packing positions of physical
\* pixel (px, py) in the buffer at `base`, planes weighted 1/2/4/8.
DecodePixel(h, base, px, py) ==
  LET o == base + (py % nRows) * WIDTH * 3 + px
      b0 == h[o]
      b1 == h[o + WIDTH]
      b2 == h[o + 2 * WIDTH]
      hi(k) == 2 * Bit(b0, k) + 4 * Bit(b1, k) + 8 * Bit(b2, k)
  IN IF py < nRows
     THEN <<Bit(b2, 0) + hi(2), Bit(b2, 1) + hi(3), Bit(b1, 0) + hi(4)>>
     ELSE <<Bit(b1, 1) + hi(5), Bit(b0, 0) + hi(6), Bit(b0, 1) + hi(7)>>

\* The channels of a 16-bit colour that the panel keeps.
Kept(c) == <<c \div 4096, (c \div 128) % 16, (c \div 2) % 16>>

\* C2: after an in-range drawPixel(x, y, c) the plane bits stored at the
\* pixel's packing positions, recombined with weights 1/2/4/8, are exactly
\* (c>>12, (c>>7)&0xF, (c>>1)&0xF), whatever the buffer held before; 0xF800
\* at (0,0) reads back as (15, 0, 0).
C2_RoundTrip ==
  (Returned("drawPixel") /\ Visible(cur.x, cur.y, rotation)) =>
    LET p == PhysicalOf(cur.x, cur.y, rotation)
        got == DecodePixel(heap, matrixbuff[backindex], p[1], p[2])
    IN /\ got = Kept(cur.c)
       /\ (cur.c = 63488 => got = <<15, 0, 0>>)

\* A lower-half pixel written over a buffer of all-ones bytes reads back pure red.
C2_Witness ==
  /\ Returned("drawPixel")
  /\ rotation = 0
  /\ cur.x = WIDTH - 1 /\ cur.y = nRows
  /\ cur.c = 63488
  /\ cur.pre.heap[0] = 255
  /\ DecodePixel(heap, matrixbuff[backindex], cur.x, cur.y) = <<15, 0, 0>>

\* The visible pixels, in any order, as a sequence.
RECURSIVE SeqOf(_)
SeqOf(S) ==
  IF S = {} THEN <<>>
  ELSE LET e == CHOOSE e \in S : TRUE IN <<e>> \o SeqOf(S \ {e})

VisiblePixels(rot) ==
  SeqOf((0..(Width_(rot) - 1)) \X (0..(Height_(rot) - 1)))

\* drawPixel(x, y, c) for every pixel of the sequence, on buffer `base`.
\* (The test on DOMAIN has each intermediate buffer computed before the
\* next pixel is drawn on it.)
RECURSIVE DrawAll(_, _, _, _, _)
DrawAll(h, base, px, c, rot) ==
  IF px = <<>> THEN h
  ELSE LET h1 == DrawPixelOn(h, base, px[1][1], px[1][2], c, rot)
       IN IF DOMAIN h1 = DOMAIN h
          THEN DrawAll(h1, base, Tail(px), c, rot)
          ELSE h1

\* C3: fillScreen(0x0000) and fillScreen(0xFFFF) leave the back buffer
\* byte-identical to drawing every visible pixel in that colour (all bytes
\* 0x00, respectively 0xFF), whatever it held before, and change nothing
\* outside the WIDTH*nRows*3 bytes of the back buffer.
C3_FastFill ==
  (Returned("fillScreen") /\ cur.c \in {0, 65535}) =>
    /\ heap = DrawAll(cur.pre.heap, matrixbuff[backindex],
                      VisiblePixels(rotation), cur.c, rotation)
    /\ \A a \in DOMAIN heap :
         IF InBuffer(a, backindex)
         THEN heap[a] = (IF cur.c = 0 THEN 0 ELSE 255)
         ELSE heap[a] = cur.pre.heap[a]
    /\ Cardinality({a \in DOMAIN heap : InBuffer(a, backindex)})
         = WIDTH * nRows * 3

\* A white fast fill of the second buffer of a double-buffered panel whose
\* bytes were not all-ones before.
C3_Witness ==
  /\ Returned("fillScreen")
  /\ cur.c = 65535
  /\ dbuf /\ backindex = 1
  /\ cur.pre.heap[buffsize] \notin {0, 255}
  /\ heap[buffsize] = 255
  /\ heap[0] = cur.pre.heap[0]

\* The call just made (this step) is `op`.
Calls(op) == budget' = budget - 1 /\ cur'.op = op

\* C8: drawPixel with x < 0, x >= _width, y < 0 or y >= _height, under any
\* rotation, returns without changing any byte of either buffer, backindex,
\* swapflag, row or plane.
C8_OutOfRangeNoOp ==
  [][(Calls("drawPixel") /\ ~Visible(cur'.x, cur'.y, rotation)) =>
       /\ pc' = "idle"
       /\ UNCHANGED <<heap, backindex, swapflag, row, plane>>]_vars

\* A rotated panel has returned from a drawPixel one column past its
\* visible width, its buffers as they were.
C8_Witness ==
  /\ Returned("drawPixel")
  /\ rotation = 1
  /\ cur.x = Width_(rotation) /\ cur.y = 0
  /\ heap = cur.pre.heap
  /\ heap[0] = 255

\* This step is a timer tick (every tick changes plane).
IsTick == plane' # plane

\* This step is a timer interrupt on this instance (it is counted).
Ticked == hist'.ticks # hist.ticks

\* This step is a tick that wraps row to 0.
IsRowWrap == IsTick /\ row' = 0 /\ plane' = 0

\* C1: backindex changes value only inside a tick that wraps row to 0; no
\* step ending with row # 0 or plane # 0, and no application call (begin,
\* drawPixel, fillScreen, swapBuffers), changes it.
C1_SwapOnlyAtRowWrap ==
  [][backindex' # backindex => IsRowWrap]_vars

\* The heap offsets the stores of a drawPixel in progress go to.
StoreTargets == {cur.ptr, cur.ptr + WIDTH, cur.ptr + 2 * WIDTH}

\* The application writes buffer matrixbuff[backindex] and the interrupt
\* reads the other one.
BuffersApart ==
  (dbuf /\ timerArmed) =>
    /\ \A a \in scanned : InBuffer(a, 1 - backindex) /\ ~InBuffer(a, backindex)
    /\ pc = "draw" => \A a \in StoreTargets : InBuffer(a, backindex)
    /\ pc = "memset" => cur.ptr = matrixbuff[backindex]
    /\ matrixbuff[backindex] # matrixbuff[1 - backindex]

\* C4: on a double-buffered panel after begin(), the buffer drawPixel,
\* fillScreen and swapBuffers write is never the buffer the interrupt
\* reads, and backindex does not change while a drawPixel or fillScreen
\* call is in progress.
C4_FrontNeverWritten ==
  /\ []BuffersApart
  /\ [][(dbuf /\ pc \in {"draw", "memset", "fill"}) => backindex' = backindex]_vars

\* After a swap, a tick has read the front buffer while a drawPixel into
\* the second buffer is in progress.
C4_Witness ==
  /\ dbuf /\ timerArmed
  /\ backindex = 1
  /\ pc = "draw"
  /\ scanned # {}
  /\ \A a \in scanned : a < buffsize
  /\ \A a \in StoreTargets : a >= buffsize

\* C5: on the active double-buffered panel, swapBuffers sets swapflag and
\* returns only once the interrupt has cleared it; the flag is cleared and
\* backindex toggled at the first row-wrap tick after the request, and by
\* no other tick; that tick is at most the (nRows * nPlanes)-th after the
\* request.
C5_BoundedSwap ==
  /\ [][(Calls("swapBuffers") /\ dbuf) => (swapflag' /\ pc' = "swapwait")]_vars
  /\ [][(pc = "swapwait" /\ pc' # "swapwait") => ~swapflag]_vars
  /\ [][(swapflag /\ IsTick) =>
          IF IsRowWrap THEN ~swapflag' /\ backindex' = 1 - backindex
          ELSE swapflag' /\ backindex' = backindex]_vars
  /\ []((activePanel = this /\ pc = "swapwait") =>
          /\ sinceReq <= nRows * nPlanes
          /\ swapflag => sinceReq < nRows * nPlanes)

\* A request made right after a row wrap is honoured by the tick that
\* completes the frame.
C5_Witness ==
  /\ activePanel = this /\ dbuf
  /\ pc = "swapwait"
  /\ ~swapflag
  /\ sinceReq = nRows * nPlanes
  /\ backindex = 1

\* The bytes of buffer k in heap h.
Contents(h, k) == [i \in 0..(buffsize - 1) |-> h[matrixbuff[k] + i]]

\* C6: when swapBuffers(copy) returns on the active double-buffered panel,
\* the new front buffer holds what the back buffer held at the call; with
\* copy the new back buffer is identical to it, without copy the new back
\* buffer holds the old front buffer's contents.
C6_SwapResult ==
  (Returned("swapBuffers") /\ dbuf) =>
    LET wasBack == cur.pre.backindex IN
    /\ backindex = 1 - wasBack
    /\ Contents(heap, 1 - backindex) = Contents(cur.pre.heap, wasBack)
    /\ cur.copy => Contents(heap, backindex) = Contents(heap, 1 - backindex)
    /\ ~cur.copy => Contents(heap, backindex) = Contents(cur.pre.heap, 1 - wasBack)

\* A drawn buffer has been swapped to the front and copied forward.
C6_Witness ==
  /\ Returned("swapBuffers") /\ dbuf
  /\ cur.copy
  /\ Contents(cur.pre.heap, 0) # Contents(cur.pre.heap, 1)
  /\ Contents(heap, 0) = Contents(heap, 1)
  /\ backindex = 1

\* C7: on a panel constructed without double buffering, swapBuffers(copy)
\* returns in the step it is called, for either copy, swapflag is never
\* set, and backindex, the buffer and the scheduler state are unchanged.
C7_NoOpSwap ==
  /\ [](~dbuf => ~swapflag)
  /\ [][(Calls("swapBuffers") /\ ~dbuf) =>
          /\ pc' = "idle"
          /\ UNCHANGED <<heap, backindex, swapflag, row, plane, buffptr>>]_vars

\* A single-buffered panel, running and drawn on, has returned from
\* swapBuffers(true).
C7_Witness ==
  /\ Returned("swapBuffers") /\ ~dbuf
  /\ cur.copy
  /\ timerArmed
  /\ heap # [a \in DOMAIN heap |-> 0]
  /\ heap = cur.pre.heap

\* ------------------------------------------------------- colour codec

\* Arguments for the conversions: every byte value in each channel (the
\* three channels run through 0..255 at different strides), and the
\* extremes.
ByteTriples ==
  {<<v, (v * 7 + 3) % 256, (v * 13 + 5) % 256>> : v \in 0..255}
    \cup {<<0, 0, 0>>, <<7, 7, 7>>, <<15, 15, 15>>, <<255, 255, 255>>}

\* Hues over two turns of the colour wheel, both signs: the ends and the
\* middle of every sextant.
Hues ==
  {h \in (0 - 1540)..1540 : h % 256 \in {0, 1, 2, 127, 128, 254, 255}}
Sats == {0, 100, 255}
Vals == {0, 100, 255}

\* A constructed panel and any of the gamma tables; one conversion is called.
InitColor ==
  /\ platform = "Photon"
  /\ rotation = 0
  /\ InitPanel(FALSE)
  /\ InitRest
  /\ cur = NoCall
  /\ budget = 1
  /\ bcm = NoBcm
  /\ gamma \in GammaTables

NextColor ==
  \/ \E t \in ByteTriples : Color333Call(t[1], t[2], t[3])
  \/ \E t \in ByteTriples : Color444Call(t[1], t[2], t[3])
  \/ \E t \in ByteTriples : Color888Call(t[1], t[2], t[3])
  \/ \E t \in ByteTriples, gf \in BOOLEAN : Color888gCall(t[1], t[2], t[3], gf)
  \/ \E h \in Hues, sa \in Sats, va \in Vals, gf \in BOOLEAN :
       ColorHSVCall(h, sa, va, gf)

SpecColor == InitColor /\ [][NextColor]_vars

\* The 5/6/5 fields of a 16-bit colour.
Fields(c) == <<c \div 2048, (c \div 32) % 64, c % 32>>

\* The 4-bit channels drawPixel takes from a 16-bit colour.
Extract(c) == <<R4(c), G4(c), B4(c)>>

\* C13: ColorHSV(h, sat, val, gflag) = ColorHSV(h + 1536*k, sat, val, gflag)
\* for every hue h, negative ones included, and every k; in particular
\* ColorHSV(-1,255,255) = ColorHSV(1535,255,255); the normalized hue lies in
\* 0..1535 and its sextant index hue>>8 in 0..5.
C13_HuePeriodic ==
  /\ \A gf \in BOOLEAN :
       ColorHSV(0 - 1, 255, 255, gf) = ColorHSV(1535, 255, 255, gf)
  /\ (col.op = "ColorHSV") =>
       /\ \A k \in (0 - 2)..2 :
            ColorHSV(col.hue + 1536 * k, col.sat, col.val, col.gflag) = col.ret
       /\ NormHue(col.hue) \in 0..1535
       /\ NormHue(col.hue) \div 256 \in 0..5

\* Hue -257, one step into the blue-to-magenta sextant from above, gives
\* the colour of hue 1279: full red and blue, no green.
C13_Witness ==
  /\ col.op = "ColorHSV"
  /\ col.hue = 0 - 257 /\ col.sat = 255 /\ col.val = 255 /\ ~col.gflag
  /\ Extract(col.ret) = <<15, 0, 15>>
  /\ col.ret = ColorHSV(1279, 255, 255, FALSE)

\* C14: Color333 returns the fields R5 = (r3<<2)|(r3>>1), G6 = (g3<<3)|g3,
\* B5 = (b3<<2)|(b3>>1) of the low three bits of its arguments, Color444
\* the fields R5 = (r4<<1)|(r4>>3), G6 = (g4<<2)|(g4>>2), B5 = (b4<<1)|(b4>>3)
\* of the low four bits; drawPixel extracts (r4, g4, b4) from Color444 and
\* (x3<<1)|(x3>>2) per channel from Color333; Color333(7,7,7) =
\* Color444(15,15,15) = 0xFFFF.
C14_Promotion ==
  /\ Color333(7, 7, 7) = 65535
  /\ Color444(15, 15, 15) = 65535
  /\ (col.op = "Color333") =>
       LET r3 == col.r % 8
           g3 == col.g % 8
           b3 == col.b % 8
           up(x) == 2 * x + x \div 4
       IN /\ Fields(col.ret) =
               <<4 * r3 + r3 \div 2, 8 * g3 + g3, 4 * b3 + b3 \div 2>>
          /\ Extract(col.ret) = <<up(r3), up(g3), up(b3)>>
  /\ (col.op = "Color444") =>
       LET r4 == col.r % 16
           g4 == col.g % 16
           b4 == col.b % 16
       IN /\ Fields(col.ret) =
               <<2 * r4 + r4 \div 8, 4 * g4 + g4 \div 4, 2 * b4 + b4 \div 8>>
          /\ Extract(col.ret) = <<r4, g4, b4>>

\* Color444 of arguments with bits above the low four set: they are
\* masked off, and the top bits are replicated into the fields' low bits.
C14_Witness ==
  /\ col.op = "Color444"
  /\ col.r = 200
  /\ Fields(col.ret)[1] = 17
  /\ Extract(col.ret)[1] = 8

\* C15: with a gamma table of 4-bit entries, Color888(r,g,b,true) =
\* Color444(gamma[r], gamma[g], gamma[b]); Color888(r,g,b,false) =
\* Color888(r,g,b) = ((r>>3)<<11) | ((g>>2)<<5) | (b>>3), truncation to the
\* top 5/6/5 bits without rounding.
C15_Demotion ==
  LET top == (col.r \div 8) * 2048 + (col.g \div 4) * 32 + col.b \div 8
      g4(x) == gamma[x] % 16
  IN
  /\ \A i \in 0..255 : gamma[i] \in 0..15
  /\ (col.op = "Color888") => col.ret = top
  /\ (col.op = "Color888g" /\ ~col.gflag) =>
       col.ret = top /\ col.ret = Color888(col.r, col.g, col.b)
  /\ (col.op = "Color888g" /\ col.gflag) =>
       /\ col.ret = Color444(gamma[col.r], gamma[col.g], gamma[col.b])
       /\ Fields(col.ret) =
            <<2 * g4(col.r) + g4(col.r) \div 8,
              4 * g4(col.g) + g4(col.g) \div 4,
              2 * g4(col.b) + g4(col.b) \div 8>>

\* A linear demotion that a rounding one would have stepped up: 207 is
\* nearer 26*8 than 25*8, and the red field is 25.
C15_Witness ==
  /\ col.op = "Color888"
  /\ col.r = 207
  /\ Fields(col.ret)[1] = 25

\* C16: Color888(255,255,255,true) = Color888(255,255,255,false) = 0xFFFF:
\* the gamma table's last entry is the brightest 4-bit value, and it is
\* promoted to full white.
C16_GammaWhite ==
  /\ gamma[255] = 15
  /\ Color888g(255, 255, 255, TRUE) = Color888g(255, 255, 255, FALSE)
  /\ (col.op = "Color888g" /\ col.r = 255 /\ col.g = 255 /\ col.b = 255) =>
       col.ret = 65535

\* Gamma-corrected white through a table that maps 254 below the top.
C16_Witness ==
  /\ col.op = "Color888g" /\ col.gflag
  /\ col.r = 255 /\ col.g = 255 /\ col.b = 255
  /\ gamma[254] < 15
  /\ col.ret = 65535

\* ------------------------------------------------- before the first swap

\* Every byte of the front buffer, matrixbuff[1 - backindex], is zero.
FrontZero ==
  \A i \in 0..(buffsize - 1) : heap[matrixbuff[1 - backindex] + i] = 0

\* C12 as stated: on a double-buffered panel the front buffer stays all
\* zero until the first swapBuffers call has completed (returned), whatever
\* drawPixel and fillScreen calls and ticks occur before.
C12_ZeroUntilSwapReturns ==
  (dbuf /\ ~hist.returned) => FrontZero

\* C12, amended: on a double-buffered panel the front buffer stays all zero
\* until the row-wrap tick that honours the first swapBuffers request (it
\* comes while that call is still waiting): that is, as long as swapBuffers
\* has not been called, or its first call still finds swapflag set.
C12_ZeroUntilFirstSwap ==
  (dbuf /\ (~hist.requested \/ (~hist.returned /\ swapflag))) => FrontZero

\* A drawn back buffer, the first swap requested and a tick gone by without
\* a row wrap: the front buffer is still all zero.
C12_Witness ==
  /\ dbuf /\ timerArmed
  /\ pc = "swapwait" /\ swapflag
  /\ ~hist.returned
  /\ sinceReq >= 1
  /\ \E a \in 0..(buffsize - 1) : heap[matrixbuff[backindex] + a] # 0
  /\ FrontZero

\* ------------------------------------------------------- two instances

\* Two constructed panels, any build configuration; the application begins
\* either of them, in any order, and swaps buffers on the first.
InitPanels ==
  /\ platform \in Platforms
  /\ rotation = 0
  /\ \E d \in BOOLEAN : InitPanel(d)
  /\ InitRest
  /\ cur = NoCall
  /\ budget = MaxCalls
  /\ bcm = NoBcm
  /\ gamma = GammaShift

NextPanels ==
  \/ begin
  \/ beginOther
  \/ updateDisplay
  \/ updateDisplayOther
  \/ \E copy \in BOOLEAN : swapBuffersCall(copy)
  \/ swapBuffersReturn

SpecPanels == InitPanels /\ [][NextPanels]_vars

\* This step advances this instance's scan counters / the other's.
ThisAdvances == <<row, plane>>' # <<row, plane>>
OtherAdvances == <<other.row, other.plane>>' # <<other.row, other.plane>>

\* This step is a timer interrupt (every interrupt raises the tick count of
\* the instance it refreshes, or advances the second instance).
Interrupt == hist'.ticks # hist.ticks \/ OtherAdvances

\* C11: activePanel is the instance whose begin() was called most recently;
\* each timer tick advances exactly one instance, the active one, and
\* leaves the row, plane, backindex, swapflag and buffptr of the other
\* instance unchanged; no tick advances both.
C11_SingleActivePanel ==
  /\ [][/\ Calls("begin") => activePanel' = this
        /\ Calls("other.begin") => activePanel' = that
        /\ ~(Calls("begin") \/ Calls("other.begin")) =>
             activePanel' = activePanel]_vars
  /\ [][Interrupt =>
          /\ ThisAdvances # OtherAdvances
          /\ ThisAdvances =>
               /\ activePanel = this
               /\ other' = other
          /\ OtherAdvances =>
               /\ activePanel = that
               /\ UNCHANGED <<row, plane, backindex, swapflag, buffptr>>]_vars
  /\ [][(ThisAdvances \/ OtherAdvances) => Interrupt]_vars

\* The plane shifted out before plane p.
PlaneBefore(p) == (p + nPlanes - 1) % nPlanes

\* C19: every tick reprograms the timer with dur[p], p the value of plane
\* on entry to the tick (the plane shifted out by the previous tick and
\* latched by this one), and dur[p] = dur[0] << p: each plane's interval is
\* twice the previous plane's, in every build configuration; while the
\* output is enabled, the interval running is that of the plane latched.
C19_IntervalPerPlane ==
  /\ []((oe = 0 /\ activePanel = this) =>
          period = dur(platform)[PlaneBefore(plane) + 1])
  /\ []((oe = 0 /\ activePanel = that) =>
          period = dur(platform)[PlaneBefore(other.plane) + 1])
  /\ [](\A pf \in Platforms, p \in 0..(nPlanes - 1) :
          /\ dur(pf)[p + 1] = dur(pf)[1] * Pow2(p)
          /\ p > 0 => dur(pf)[p + 1] = 2 * dur(pf)[p])
  /\ [][Ticked =>
          /\ period' = dur(platform)[plane + 1]
          /\ period' = dur(platform)[1] * Pow2(plane)]_vars
  /\ [][OtherAdvances => period' = dur(platform)[other.plane + 1]]_vars

\* The second tick on the bit-banging Core build: plane 0, shifted out by
\* the first tick, is latched and given the shortest interval.
C19_Witness ==
  /\ platform = "CoreBitBang"
  /\ activePanel = this
  /\ hist.ticks = 2
  /\ plane = 1
  /\ period = 50

\* Both instances were begun, the second one last; it has been refreshed
\* into its first row while the first instance stands where it was stopped.
C11_Witness ==
  /\ activePanel = that
  /\ cur.op = "other.begin"
  /\ hist.ticks = 2
  /\ row = 0 /\ plane = 1
  /\ other.row = 0 /\ other.plane = 2

\* ------------------------------------------------------------ scanning

\* Where the k-th tick ends, k counted from 1 (any k with k - 1 = j modulo
\* the frame length): <<row, plane>>.
ScanPosition(j) == <<(j \div nPlanes) % nRows, j % nPlanes>>

\* C17: row < nRows and plane < nPlanes always; from (nRows-1, nPlanes-1)
\* every tick increments plane modulo nPlanes, and row modulo nRows exactly
\* when plane wraps to 0, so the k-th tick ends in
\* (((k-1) div nPlanes) mod nRows, (k-1) mod nPlanes) and the ticks of a
\* frame visit every (row, plane) once; no application call changes row or
\* plane.
C17_ScanOrder ==
  /\ [](/\ row < nRows /\ plane < nPlanes
        /\ <<row, plane>> = ScanPosition((hist.ticks + FrameTicks - 1) % FrameTicks))
  /\ [][Ticked =>
          /\ plane' = (plane + 1) % nPlanes
          /\ row' = IF plane' = 0 THEN (row + 1) % nRows ELSE row]_vars
  /\ [][~Ticked => UNCHANGED <<row, plane>>]_vars
  /\ [](\A i, j \in 0..(FrameTicks - 1) :
          ScanPosition(i) = ScanPosition(j) => i = j)

\* The sixth tick, with drawing in between, ends in row 1, plane 1.
C17_Witness ==
  /\ hist.ticks = nPlanes + 2
  /\ row = 1 /\ plane = 1
  /\ cur.op \in {"drawPixel", "fillScreen", "swapBuffers"}

\* The six colour lines for each column of physical row r, plane p, of the
\* buffer at `base`: R1 G1 B1 (pixel (i, r)) and R2 G2 B2 (pixel
\* (i, r + nRows)) as bits 2..7.
LinesOf(h, base, r, p) ==
  [i \in 1..WIDTH |->
     LET u == DecodePixel(h, base, i - 1, r)
         l == DecodePixel(h, base, i - 1, r + nRows)
     IN 4 * Bit(u[1], p) + 8 * Bit(u[2], p) + 16 * Bit(u[3], p)
          + 32 * Bit(l[1], p) + 64 * Bit(l[2], p) + 128 * Bit(l[3], p)]

\* C18: a tick that ends in (row, plane) drives, for each column i, the
\* colour lines with bit `plane` of the 4-bit channels of the front-buffer
\* pixels (i, row) and (i, row + nRows) as drawPixel stored them, plane 0
\* and the first tick after a swap included.
C18_OutputMatchesPixels ==
  [][Ticked =>
       lines' = LinesOf(heap, matrixbuff[1 - backindex'], row', plane')]_vars

\* C20: a tick writes the row address lines exactly when plane becomes 1,
\* with the binary value of row (A, B, C from bits 0..2, D from bit 3 only
\* on a panel of more than 8 rows); every other tick, the one that wraps
\* plane to 0 and advances row included, leaves them as they were.
C20_RowAddressTiming ==
  /\ [][Ticked =>
          IF plane' = 1
          THEN /\ addr' % 8 = row' % 8
               /\ nRows > 8 => addr' = row'
               /\ nRows <= 8 => addr' \div 8 = addr \div 8
          ELSE addr' = addr]_vars
  /\ [](\A old \in 0..15 :
          /\ \A r \in 0..15 : RowAddressN(16, r, old) = r
          /\ \A r \in 0..7 : RowAddressN(8, r, old) = r + 8 * Bit(old, 3))

\* Row 1 has been entered (plane 0 shifted out) with the address lines
\* still selecting row 0.
C20_Witness ==
  /\ timerArmed
  /\ row = 1 /\ plane = 0
  /\ addr = 0
  /\ hist.ticks = nPlanes + 1

\* ------------------------------------------------- allocation failure

\* Construction with either outcome of malloc, then begin() and the timer.
InitAlloc ==
  /\ platform = "Photon"
  /\ rotation = 0
  /\ \E d \in BOOLEAN : InitPanel(d) \/ InitPanelFailed(d)
  /\ InitRest
  /\ cur = NoCall
  /\ budget = MaxCalls
  /\ bcm = NoBcm
  /\ gamma = GammaShift

NextAlloc ==
  \/ begin
  \/ updateDisplay

SpecAlloc == InitAlloc /\ [][NextAlloc]_vars

\* C9: a panel whose framebuffer could not be allocated (matrixbuff[0] is
\* NULL) does not begin operation: its begin() never arms the refresh timer
\* or makes it the active panel, and updateDisplay never reads through its
\* buffer pointer.
C9_AllocFailureFatal ==
  (matrixbuff[0] = NULL) =>
    /\ ~timerArmed
    /\ activePanel # this
    /\ scanned = {}

\* ------------------------------------------------------ BCM brightness

\* One row's cycle of planes for two 4-bit channel values v and w: plane p
\* is displayed for the interval dur[p] that updateDisplay programs, and a
\* channel is lit during it when bit p of its value is set.
InitBCM ==
  /\ platform \in Platforms
  /\ rotation = 0
  /\ InitPanel(FALSE)
  /\ InitRest
  /\ cur = NoCall
  /\ budget = 0
  /\ bcm \in {[NoBcm EXCEPT !.v = v, !.w = w] : v \in 0..15, w \in 0..15}
  /\ gamma = GammaShift

\* The interval of plane bcm.p elapses.
showPlane ==
  /\ bcm.p < nPlanes
  /\ \E d \in Durations(platform, bcm.p) :
       bcm' = [bcm EXCEPT
                 !.p = @ + 1,
                 !.total = @ + d,
                 !.onV = @ + d * Bit(bcm.v, bcm.p),
                 !.onW = @ + d * Bit(bcm.w, bcm.p)]
  /\ UNCHANGED <<panelVars, pinVars, timerVars, configVars, pc, cur, budget,
                 sinceReq, auxVars, hist>>

NextBCM == showPlane

SpecBCM == InitBCM /\ [][NextBCM]_vars

\* C10: over a full cycle of planes the lit fraction onV / total of a 4-bit
\* channel value v is non-decreasing in v, and equals v / 15, since
\* dur[p] = dur[0] * 2^p in every build configuration.
C10_BrightnessMonotone ==
  /\ \A q \in 0..(nPlanes - 1) : dur(platform)[q + 1] = dur(platform)[1] * Pow2(q)
  /\ (bcm.p = nPlanes) =>
       /\ bcm.total > 0
       /\ (bcm.v <= bcm.w) => (bcm.onV * bcm.total <= bcm.onW * bcm.total)
       /\ bcm.onV * 15 = bcm.v * bcm.total

\* Values 7 and 8 after a full cycle on the bit-banging Core build: 8 is
\* lit longer than 7.
C10_Witness ==
  /\ platform = "CoreBitBang"
  /\ bcm.p = nPlanes
  /\ bcm.v = 7 /\ bcm.w = 8
  /\ bcm.onV = 350 /\ bcm.onW = 400 /\ bcm.total = 750

\* ------------------------------------------------- signal protocol of a tick

\* WIDTH column outputs, each followed by one clock pulse.
RECURSIVE Columns(_)
Columns(n) ==
  IF n = 0 THEN <<>>
  ELSE <<"data", "sclk high", "sclk low">> \o Columns(n - 1)

\* The order of a tick's events; the address lines are written when due.
TickOrder(due) ==
  <<"oe high", "latch high", "sclk low", "advance">>
    \o (IF due THEN <<"address">> ELSE <<>>)
    \o <<"timer", "oe low", "latch low">>
    \o Columns(WIDTH)

\* Whether the pin raised by event hi and lowered by event lo is high when
\* event k of ev happens (it is low if neither has happened yet).
HighAt(ev, k, hi, lo) ==
  LET S == {j \in 1..(k - 1) : ev[j] \in {hi, lo}} IN
  S # {} /\ ev[CHOOSE j \in S : \A i \in S : i <= j] = hi

\* The plane counter of the instance the last tick refreshed.
PlaneTicked == IF activePanel = that THEN other.plane ELSE plane

\* C21: within every tick the events occur in this order: OE high, latch
\* high, clock low; (row, plane) advanced and, if due, the address lines
\* written; timer reprogrammed; OE low, latch low; then exactly WIDTH column
\* outputs, each followed by exactly one clock pulse.  Hence the address
\* lines, the latch-high phase and the timer call happen only while OE is
\* high, no clock pulse happens while the latch is high, and OE and latch
\* are low at the end of the tick.
C21_TickProtocol ==
  events # <<>> =>
    /\ events = TickOrder(PlaneTicked = 1)
    /\ \A k \in 1..Len(events) :
         /\ (events[k] \in {"address", "timer", "latch high"}
               \/ HighAt(events, k, "latch high", "latch low"))
              => HighAt(events, k + 1, "oe high", "oe low")
         /\ events[k] = "sclk high" =>
              ~HighAt(events, k, "latch high", "latch low")
         /\ events[k] = "data" =>
              /\ k + 2 <= Len(events)
              /\ events[k + 1] = "sclk high"
              /\ events[k + 2] = "sclk low"
    /\ Cardinality({k \in 1..Len(events) : events[k] = "data"}) = WIDTH
    /\ Cardinality({k \in 1..Len(events) : events[k] = "sclk high"}) = WIDTH
    /\ ~HighAt(events, Len(events) + 1, "oe high", "oe low")
    /\ ~HighAt(events, Len(events) + 1, "latch high", "latch low")
    /\ oe = 0 /\ latch = 0

\* C21 (amended): as C21, with the raising of the latch, not the whole
\* latch-high phase, happening only while OE is high: the latch is lowered
\* by the statement after the one that lowers OE.
C21_TickProtocolLatchRaised ==
  events # <<>> =>
    /\ events = TickOrder(PlaneTicked = 1)
    /\ \A k \in 1..Len(events) :
         /\ events[k] \in {"address", "timer", "latch high"}
              => HighAt(events, k + 1, "oe high", "oe low")
         /\ events[k] = "sclk high" =>
              ~HighAt(events, k, "latch high", "latch low")
         /\ events[k] = "data" =>
              /\ k + 2 <= Len(events)
              /\ events[k + 1] = "sclk high"
              /\ events[k + 2] = "sclk low"
    /\ Cardinality({k \in 1..Len(events) : events[k] = "data"}) = WIDTH
    /\ Cardinality({k \in 1..Len(events) : events[k] = "sclk high"}) = WIDTH
    /\ ~HighAt(events, Len(events) + 1, "oe high", "oe low")
    /\ ~HighAt(events, Len(events) + 1, "latch high", "latch low")
    /\ oe = 0 /\ latch = 0

\* A tick that entered with plane 0 of the last row has written the
\* address lines and shifted plane 1 out.
C21_Witness ==
  /\ Len(events) = 8 + 3 * WIDTH
  /\ events[5] = "address"
  /\ row = nRows - 1 /\ plane = 1
  /\ addr = nRows - 1
  /\ oe = 0 /\ latch = 0

\* ---------------------------------------------------- swap flag handshake

\* C22: swapflag becomes true only through swapBuffers and false only in a
\* tick that wraps row to 0; such a tick toggles backindex if and only if
\* it finds swapflag set, and leaves the flag clear; a tick that finds no
\* request leaves backindex alone; a swapBuffers call that waits holds
\* backindex as it found it while the flag is set and toggled once the
\* flag is clear, so the call returns with backindex toggled exactly once.
C22_SwapHandshake ==
  /\ [][(swapflag' /\ ~swapflag) => Calls("swapBuffers")]_vars
  /\ [][(swapflag /\ ~swapflag') => IsRowWrap]_vars
  /\ [][IsRowWrap =>
          /\ (backindex' = 1 - backindex) <=> swapflag
          /\ ~swapflag']_vars
  /\ [][(IsTick /\ ~swapflag) => backindex' = backindex]_vars
  /\ [](pc = "swapwait" =>
          backindex = IF swapflag THEN cur.pre.backindex
                      ELSE 1 - cur.pre.backindex)
  /\ [][(pc = "swapwait" /\ pc' = "idle") =>
          backindex' = 1 - cur.pre.backindex]_vars

\* A second swapBuffers call has returned: each of the two toggled
\* backindex once, so it is back at 0.
C22_Witness ==
  /\ Returned("swapBuffers")
  /\ dbuf
  /\ budget = 0
  /\ cur.pre.backindex = 1
  /\ backindex = 0
  /\ ~swapflag

\* C23: a swapBuffers call on a double-buffered panel returns within one
\* full frame period while the timer interrupt keeps firing, whatever
\* instances exist and whatever begin() calls were made: once nRows*nPlanes
\* interrupts have been taken since the request, the wait loop has found
\* the flag clear.
C23_SwapReturnsWithinFrame ==
  (pc = "swapwait" /\ hist.waited >= FrameTicks) => ~swapflag

\* --------------------------------------------------------- tear-free frames

\* C24: on a double-buffered panel every slice shifted out from one tick
\* that wraps row to 0 up to the next is read from the buffer the first of
\* them was read from, no step changes the contents of that buffer, and
\* the buffer read changes only with the slice (row 0, plane 0).
C24_TearFreeFrames ==
  /\ [][(dbuf /\ Ticked) =>
          \A a \in scanned' : InBuffer(a, hist'.frame)]_vars
  /\ [][(dbuf /\ hist.frame # NULL) =>
          Contents(heap', hist.frame) = Contents(heap, hist.frame)]_vars
  /\ [][hist'.frame # hist.frame => IsRowWrap]_vars

\* ------------------------------------------------------ rotation transform

\* The physical pixels of the panel.
Physical == (0..(WIDTH - 1)) \X (0..(HEIGHT - 1))

\* The coordinates drawPixel accepts under rotation rot.
Accepted(rot) ==
  {v \in PixelCoords \X PixelCoords : ~OutOfRange(v[1], v[2], rot)}

\* C25: with (_width, _height) = (WIDTH, HEIGHT) for rotations 0 and 2 and
\* (HEIGHT, WIDTH) for rotations 1 and 3, drawPixel stores a visible (x, y)
\* at physical (x, y) for rotation 0, (WIDTH-1-y, x) for rotation 1,
\* (WIDTH-1-x, HEIGHT-1-y) for rotation 2 and (y, HEIGHT-1-x) for rotation
\* 3: that pixel, and no other, takes the colour; for each rotation the
\* mapping is from the visible area onto the whole panel, which has as
\* many pixels, so it is one-to-one.
C25_RotationBijection ==
  /\ (Returned("drawPixel") /\ Visible(cur.x, cur.y, rotation)) =>
       LET base == matrixbuff[backindex]
           p == IF rotation = 0 THEN <<cur.x, cur.y>>
                ELSE IF rotation = 1 THEN <<WIDTH - 1 - cur.y, cur.x>>
                ELSE IF rotation = 2
                  THEN <<WIDTH - 1 - cur.x, HEIGHT - 1 - cur.y>>
                ELSE <<cur.y, HEIGHT - 1 - cur.x>>
       IN /\ p \in Physical
          /\ DecodePixel(heap, base, p[1], p[2]) = Kept(cur.c)
          /\ \A q \in Physical :
               DecodePixel(heap, base, q[1], q[2])
                   # DecodePixel(cur.pre.heap, base, q[1], q[2])
                 => q = p
  /\ LET acc == Accepted(rotation) IN
       /\ acc = {v \in PixelCoords \X PixelCoords :
                   Visible(v[1], v[2], rotation)}
       /\ {Rotate(v[1], v[2], rotation) : v \in acc} = Physical
       /\ Cardinality(acc) = Cardinality(Physical)

\* Under rotation 1 a white pixel drawn at the far end of the first visible
\* row of a cleared buffer has lit the last physical pixel and no other.
C25_Witness ==
  /\ Returned("drawPixel")
  /\ rotation = 1
  /\ cur.x = HEIGHT - 1 /\ cur.y = 0
  /\ cur.c = 65535
  /\ cur.pre.heap[0] = 0
  /\ \A q \in Physical :
       DecodePixel(heap, matrixbuff[backindex], q[1], q[2]) =
         IF q = <<WIDTH - 1, HEIGHT - 1>> THEN <<15, 15, 15>> ELSE <<0, 0, 0>>

\* --------------------------------------------------- linear HSV conversion

\* c1 = 255 - (((255 - c0) * (sat+1)) >> 8) and c4 = (c1 * (val+1)) >> 12.
Desaturated(c0, sat) == 255 - (((255 - c0) * (sat + 1)) \div 256)
Linear4(c1, val) == (c1 * (val + 1)) \div 4096

\* C26: ColorHSV(hue, sat, val, false) = Color444(r4, g4, b4), where
\* (r0, g0, b0) is the sextant table's entry at the hue reduced modulo 1536
\* to 0..1535, c1 = 255 - (((255 - c0) * (sat+1)) >> 8) and
\* c4 = (c1 * (val+1)) >> 12; every c1 is in 0..255, every c4 in 0..15 and
\* the index (c1 * (val+1)) >> 8 of the gamma path in 0..255; val = 0 gives
\* 0x0000, sat = 0 gives three equal 4-bit channels, and sat = val = 255
\* at hues 0, 512, 1024 gives 0xF800, 0x07E0, 0x001F.
C26_LinearHSV ==
  col.op = "ColorHSV" =>
    LET h == col.hue % 1536
        c0 == Sextant(h \div 256, h % 256)
        c1 == [k \in 1..3 |-> Desaturated(c0[k], col.sat)]
        c4 == [k \in 1..3 |-> Linear4(c1[k], col.val)]
    IN /\ \A k \in 1..3 :
            /\ c1[k] \in 0..255
            /\ c4[k] \in 0..15
            /\ (c1[k] * (col.val + 1)) \div 256 \in 0..255
       /\ ~col.gflag =>
            /\ col.ret = Color444(c4[1], c4[2], c4[3])
            /\ Extract(col.ret) = <<c4[1], c4[2], c4[3]>>
            /\ col.val = 0 => col.ret = 0
            /\ col.sat = 0 =>
                 /\ R4(col.ret) = G4(col.ret)
                 /\ G4(col.ret) = B4(col.ret)
            /\ (col.sat = 255 /\ col.val = 255) =>
                 /\ col.hue = 0 => col.ret = 63488
                 /\ col.hue = 512 => col.ret = 2016
                 /\ col.hue = 1024 => col.ret = 31

\* A half-saturated, dimmed orange: hue 128 with sat = val = 100 converts
\* to the 4-bit channels (6, 5, 3).
C26_Witness ==
  /\ col.op = "ColorHSV"
  /\ ~col.gflag
  /\ col.hue = 128 /\ col.sat = 100 /\ col.val = 100
  /\ Extract(col.ret) = <<6, 5, 3>>
  /\ col.ret = Color444(6, 5, 3)

\* ------------------------------------------------ drawPixel's frame effect

\* After an in-range drawPixel the pixel drawn decodes to the colour and
\* every other pixel of the back buffer decodes as it did before the call.
OthersKept ==
  LET base == matrixbuff[backindex]
      p == PhysicalOf(cur.x, cur.y, rotation)
  IN \A q \in Physical :
       DecodePixel(heap, base, q[1], q[2]) =
         IF q = p THEN Kept(cur.c)
         ELSE DecodePixel(cur.pre.heap, base, q[1], q[2])

\* The steps of drawPixel leave backindex, swapflag, row and plane alone.
DrawKeepsScan ==
  (Calls("drawPixel") \/ pc = "draw") =>
    UNCHANGED <<backindex, swapflag, row, plane>>

\* C27: an in-range drawPixel(x, y, c) leaves the decoded (r, g, b) of
\* every other pixel of the back buffer unchanged, the pixel of the other
\* panel half that shares its three bytes included, and leaves the front
\* buffer (the buffer matrixbuff[1 - backindex] the interrupt scans),
\* backindex, swapflag, row and plane unchanged; so a pixel decodes to the
\* colour last written to it.
C27_OnePixelOnly ==
  /\ []((Returned("drawPixel") /\ Visible(cur.x, cur.y, rotation)) =>
          /\ OthersKept
          /\ Contents(heap, 1 - backindex)
               = Contents(cur.pre.heap, 1 - backindex))
  /\ [][DrawKeepsScan]_vars

\* C27 (amended): as C27, with the front buffer unchanged on a
\* double-buffered panel; on a single-buffered one the buffer scanned is
\* the buffer drawn on.
C27_OnePixelOnlyDouble ==
  /\ []((Returned("drawPixel") /\ Visible(cur.x, cur.y, rotation)) =>
          /\ OthersKept
          /\ dbuf => Contents(heap, 1 - backindex)
                       = Contents(cur.pre.heap, 1 - backindex))
  /\ [][DrawKeepsScan]_vars

\* A lower-half pixel drawn black on a double-buffered panel whose bytes
\* were all ones: the upper-half pixel in the same bytes is still white,
\* and so is the front buffer.
C27_Witness ==
  /\ Returned("drawPixel")
  /\ dbuf /\ backindex = 1
  /\ rotation = 0
  /\ cur.x = 0 /\ cur.y = nRows
  /\ cur.c = 0
  /\ cur.pre.heap[0] = 255
  /\ DecodePixel(heap, matrixbuff[backindex], 0, nRows) = <<0, 0, 0>>
  /\ DecodePixel(heap, matrixbuff[backindex], 0, 0) = <<15, 15, 15>>
  /\ \A a \in DOMAIN heap : InBuffer(a, 1 - backindex) => heap[a] = 255

\* -------------------------------------------- displayed row and latched data

\* The heap offsets that hold slice (r, p) of the buffer at `base`: the
\* three bytes per column of row r for plane 0, one of them for planes 1-3.
SliceOffsets(base, r, p) ==
  LET o == base + r * WIDTH * 3 IN
  IF p = 0 THEN {o + i : i \in 0..(3 * WIDTH - 1)}
  ELSE {o + (p - 1) * WIDTH + i : i \in 0..(WIDTH - 1)}

\* C28: from the second tick after begin() on, while output is enabled the
\* row address lines hold the row of the data in the panel latch, that
\* data was read from slice (row, plane) of the state the tick was entered
\* with, and the interval running is dur[plane] of that slice.
C28_RowMatchesLatch ==
  (oe = 0 /\ activePanel = this /\ hist.since >= 2) =>
    /\ addr = hist.latched.row
    /\ hist.latched.reads =
         SliceOffsets(hist.latched.base, hist.latched.row, hist.latched.plane)
    /\ period = dur(platform)[hist.latched.plane + 1]

====
